---- MODULE Spec2Model ----
(***************************************************************************)
(* A model of the library back end: the GraphQL resolvers of index.js (the *)
(* variant with subscriptions, src/unnamed/part_000, and for allAuthors    *)
(* the variant that derives bookCount, src/index.js), the request context  *)
(* that resolves the caller from a bearer token, and the MongoDB           *)
(* collections they read and write.                                        *)
(*                                                                         *)
(* A resolver is an async function: every `await` of a store call is a     *)
(* point where other requests run.  One action is the code from the        *)
(* resumption after one await up to and including the store call of the    *)
(* next await (or the return).                                             *)
(***************************************************************************)
EXTENDS Integers, Sequences, FiniteSets, TLC

\* Bound of the model: the number of requests the server receives.
MaxRequests == 3

\* The request handlers that may be in flight at the same time.
Procs == {"r1", "r2"}

JWT_SECRET == "NEED_HERE_A_SECRET_KEY"

\* The password login compares against.
PASSWORD == "secret"

(***************************************************************************)
(* Values.  An optional value (null or undefined in the code) is a set     *)
(* with at most one element.                                               *)
(***************************************************************************)
Null == {}

Some(v) == {v}

The(s) == CHOOSE v \in s : TRUE

\* JavaScript truthiness of a string argument: undefined, null and "" are falsy.
Truthy(s) == s # ""

(***************************************************************************)
(* jsonwebtoken.  A token is the claims with a signature over them; the    *)
(* signature is the pair of what was signed and the key it was signed with.*)
(***************************************************************************)
Hmac(claims, key) == <<claims, key>>

Sign(claims, key) == [claims |-> claims, sig |-> Hmac(claims, key)]

\* jwt.verify: the claims when the signature is the secret's, else it throws.
VerifyOk(token, key) == token.sig = Hmac(token.claims, key)

\* The claims without the user's identifier (0 is no user's).
userForToken_NoId(user) == [username |-> user.username, id |-> 0]

\* The claims login signs for a user.
userForToken(user) == [username |-> user.username, id |-> user.id]

\* A token of a user whose record is no longer in the store.
StaleToken == Sign([username |-> "zed", id |-> 0], JWT_SECRET)

\* A token signed with another key.
ForgedToken == Sign([username |-> "ann", id |-> 1], "ANOTHER_KEY")

\* A string that is not a token: it carries no signature.
MalformedToken == [claims |-> [username |-> "", id |-> 0], sig |-> <<>>]

NoHeader == [scheme |-> "", token |-> StaleToken]

\* String.prototype.toLowerCase on the schemes the model sends.
toLowerCase(s) ==
    CASE s = "Bearer " -> "bearer "
      [] s = "BEARER " -> "bearer "
      [] OTHER -> s

\* auth && auth.toLowerCase().startsWith('bearer ')
IsBearer(header) == Truthy(header.scheme) /\ toLowerCase(header.scheme) = "bearer "

VARIABLES
    books,      \* the Book collection
    authors,    \* the Author collection
    users,      \* the User collection
    events,     \* what pubsub.publish('BOOK_ADDED', ...) was called with, in order
    listeners,  \* the subscription streams registered with pubsub for BOOK_ADDED
    streams,    \* per subscription stream: its connection and what it was handed
    req,        \* per handler: the request, its position and its locals
    started     \* the number of requests received so far

vars == <<books, authors, users, events, listeners, streams, req, started>>

(***************************************************************************)
(* The store.  models/book.js, models/author.js and models/user.js are not *)
(* among the sources; what the collections enforce is taken from the       *)
(* specification: title, name and username are unique keys, and a write    *)
(* that would duplicate one is rejected.                                   *)
(***************************************************************************)
\* The Book collection without a unique index on title.
BookStoreAccepts_NoIndex(doc) == TRUE

BookStoreAccepts(doc) == \A b \in books : b.title # doc.title

\* The Author collection without a unique index on name.
AuthorStoreAccepts_NoIndex(doc) == TRUE

AuthorStoreAccepts(doc) == \A a \in authors : a.name # doc.name

UserStoreAccepts(doc) == \A u \in users : u.username # doc.username

\* Model.findOne(filter): one of the matching documents, or null.
FindOne(matches) == IF matches = {} THEN {Null} ELSE {Some(d) : d \in matches}

BooksByTitle(title) == {b \in books : b.title = title}

AuthorsByName(name) == {a \in authors : a.name = name}

UsersByUsername(username) == {u \in users : u.username = username}

\* User.findById(id)
FindUserById(id) == {u \in users : u.id = id}

\* genres: { $in: [genre] }
HasGenre(b, genre) == \E i \in DOMAIN b.genres : b.genres[i] = genre

\* book.populate('author'): the author field replaced by the referenced document.
Populate(b) == [b EXCEPT !.author = The({a \in authors : a.id = b.author})]

(***************************************************************************)
(* pubsub and the subscription server.  pubsub.asyncIterator and           *)
(* pubsub.publish are graphql-subscriptions', SubscriptionServer is        *)
(* subscriptions-transport-ws': the code holds the calls only.  A          *)
(* subscription stream is the iterator one subscriber's bookAdded          *)
(* subscription reads from; pubsub hands a published payload to the        *)
(* streams registered at the time of the call.                             *)
(***************************************************************************)
Streams == {"s1", "s2"}

\* A stream's record: its connection ("none" before the subscriber connects,
\* then "open", then "closed") and the payloads it was handed, in order.  from
\* and upto are history fields: the number of events published when the
\* stream was opened, and when it was closed.
NoStream == [conn |-> "none", got |-> <<>>, from |-> 0, upto |-> 0]

\* What publish does to the streams: each registered one is handed the payload.
Deliver(payload) ==
    [s \in Streams |-> IF s \in listeners
                       THEN [streams[s] EXCEPT !.got = Append(@, payload)]
                       ELSE streams[s]]

\* pubsub.publish('BOOK_ADDED', payload)
Publish(payload) ==
    /\ events' = Append(events, payload)
    /\ streams' = Deliver(payload)
    /\ UNCHANGED listeners

\* The streams are interchangeable: subscribers take them in order.
EarlierStream(t, s) == t = "s1" /\ s = "s2"

\* As Subscribe, but the new stream is first handed what was published before.
Subscribe_Replay(s) ==
    /\ streams[s].conn = "none"
    /\ \A t \in Streams : EarlierStream(t, s) => streams[t].conn # "none"
    /\ streams' = [streams EXCEPT ![s] = [@ EXCEPT !.conn = "open", !.got = events,
                                                   !.from = Len(events)]]
    /\ listeners' = listeners \cup {s}
    /\ UNCHANGED <<books, authors, users, events, req, started>>

\* A subscriber starts a bookAdded subscription: the subscription server calls
\* subscribe, which registers a new stream for BOOK_ADDED.
Subscribe(s) ==
    /\ streams[s].conn = "none"
    /\ \A t \in Streams : EarlierStream(t, s) => streams[t].conn # "none"
    /\ streams' = [streams EXCEPT ![s] = [@ EXCEPT !.conn = "open", !.from = Len(events)]]
    /\ listeners' = listeners \cup {s}
    /\ UNCHANGED <<books, authors, users, events, req, started>>

\* As Unsubscribe, but the stream stays registered.
Unsubscribe_StaysRegistered(s) ==
    /\ streams[s].conn = "open"
    /\ streams' = [streams EXCEPT ![s] = [@ EXCEPT !.conn = "closed", !.upto = Len(events)]]
    /\ UNCHANGED <<books, authors, users, events, listeners, req, started>>

\* A subscriber's connection closes: the subscription server ends the
\* stream, which removes it from pubsub.
Unsubscribe(s) ==
    /\ streams[s].conn = "open"
    /\ streams' = [streams EXCEPT ![s] = [@ EXCEPT !.conn = "closed", !.upto = Len(events)]]
    /\ listeners' = listeners \ {s}
    /\ UNCHANGED <<books, authors, users, events, req, started>>

(***************************************************************************)
(* Requests.                                                               *)
(***************************************************************************)
NoResult == [kind |-> "none", value |-> {}]

\* A handler's record: the operation and its arguments, the position, the
\* context's currentUser, the resolver's locals and the outcome.  Five
\* fields are history: late, whether, when the request arrived, an addBook of
\* its title had already returned its Book; badToken, whether the request
\* carried a bearer token that jwt.verify rejects; wrote, whether the handler
\* has stored a document or published an event; noAuthor, whether no Author
\* of the name was stored when addBook looked for it; created, the Authors
\* the handler has added to the collection.
Idle ==
    [op |-> "none", args |-> <<>>, pc |-> "idle", currentUser |-> Null,
     found |-> Null, author |-> Null, book |-> Null, list |-> {}, authors |-> {},
     rejected |-> FALSE, late |-> FALSE, badToken |-> FALSE, wrote |-> FALSE,
     noAuthor |-> FALSE, created |-> {}, result |-> NoResult]

\* The identifiers of the documents that exist: those stored and those a
\* handler has built.
UsedIds ==
    {d.id : d \in books \cup authors \cup users}
    \cup UNION {{d.id : d \in req[p].author \cup req[p].book} : p \in Procs}

\* The identifier a new document gets (an ObjectId): one no document has.
NewId == CHOOSE n \in 1..(Cardinality(UsedIds) + 1) : n \notin UsedIds

\* req[p] with handler p's record replaced.
Set(p, r) == [req EXCEPT ![p] = r]

\* A handler that has ended: its locals are gone, its outcome is kept.
Ended(r, kind, value) ==
    [Idle EXCEPT !.op = r.op, !.args = r.args, !.pc = "done",
                 !.currentUser = r.currentUser, !.late = r.late,
                 !.badToken = r.badToken, !.wrote = r.wrote,
                 !.noAuthor = r.noAuthor, !.created = r.created,
                 !.result = [kind |-> kind, value |-> value]]

AddBookInputs ==
    { [title |-> "Dune", author |-> "Herbert", published |-> Some(1965), genres |-> <<"scifi">>],
      [title |-> "Dune", author |-> "Austen", published |-> Some(1965), genres |-> <<>>],
      [title |-> "Emma", author |-> "Herbert", published |-> Some(1815), genres |-> <<"classic">>],
      [title |-> "", author |-> "Herbert", published |-> Some(1965), genres |-> <<>>],
      [title |-> "D", author |-> "Herbert", published |-> Some(1965), genres |-> <<>>],
      [title |-> "Emma", author |-> "Bob", published |-> Some(1815), genres |-> <<>>] }

EditAuthorInputs ==
    { [name |-> "Herbert", setBornTo |-> 1920],
      [name |-> "Nobody", setBornTo |-> 1920] }

CreateUserInputs ==
    { [username |-> "ann", favoriteGenre |-> "classic"],
      [username |-> "bob", favoriteGenre |-> "scifi"] }

LoginInputs ==
    { [username |-> "ann", password |-> "secret"],
      [username |-> "ann", password |-> "guess"],
      [username |-> "bob", password |-> "secret"] }

AllBooksInputs ==
    { [author |-> "Herbert", genre |-> "scifi"],
      [author |-> "Herbert", genre |-> ""],
      [author |-> "", genre |-> "scifi"],
      [author |-> "", genre |-> ""],
      [author |-> "Nobody", genre |-> "scifi"],
      [author |-> "Nobody", genre |-> ""] }

Inputs(op) ==
    CASE op = "addBook" -> AddBookInputs
      [] op = "editAuthor" -> EditAuthorInputs
      [] op = "createUser" -> CreateUserInputs
      [] op = "login" -> LoginInputs
      [] op = "allBooks" -> AllBooksInputs
      [] op = "allAuthors" -> {<<>>}

Ops == {"addBook", "editAuthor", "createUser", "login", "allBooks", "allAuthors"}

\* The authorization headers a request may carry.
Headers(op) ==
    IF op \in {"addBook", "editAuthor"}
    THEN {NoHeader, [scheme |-> "Bearer ", token |-> StaleToken],
          [scheme |-> "Bearer ", token |-> ForgedToken],
          [scheme |-> "Basic ", token |-> StaleToken]}
         \cup {[scheme |-> "bearer ", token |-> Sign(userForToken(u), JWT_SECRET)] : u \in users}
    ELSE IF op = "createUser"
    THEN {NoHeader, [scheme |-> "BEARER ", token |-> ForgedToken],
          [scheme |-> "Bearer ", token |-> MalformedToken]}
    ELSE {NoHeader}

Init ==
    /\ books = {}
    /\ authors = {}
    /\ users = {[id |-> 1, username |-> "ann", favoriteGenre |-> "scifi"]}
    /\ events = <<>>
    /\ listeners = {}
    /\ streams = [s \in Streams |-> NoStream]
    /\ req = [p \in Procs |-> Idle]
    /\ started = 0

\* As context, but a token that fails verification is taken as no token.
context_Anonymous(header) ==
    IF IsBearer(header)
    THEN IF VerifyOk(header.token, JWT_SECRET)
         THEN [ok |-> TRUE, currentUser |-> FindUserById(header.token.claims.id)]
         ELSE [ok |-> TRUE, currentUser |-> Null]
    ELSE [ok |-> TRUE, currentUser |-> Null]

\* The context function: the caller of a request, or a failed verification.
context(header) ==
    IF IsBearer(header)
    THEN IF VerifyOk(header.token, JWT_SECRET)
         THEN [ok |-> TRUE, currentUser |-> FindUserById(header.token.claims.id)]
         ELSE [ok |-> FALSE, currentUser |-> Null]
    ELSE [ok |-> TRUE, currentUser |-> Null]

\* The handlers are interchangeable: a request is taken by the first free one.
Before(q, p) == q = "r1" /\ p = "r2"

\* Handler p can take a request.
Free(p) ==
    /\ req[p].pc \in {"idle", "done"}
    /\ \A q \in Procs : Before(q, p) => req[q].pc \notin {"idle", "done"}
    /\ started < MaxRequests

\* Request op(args) with the given authorization header arrives at handler p:
\* the context is built, then the resolver is entered.
Arrive(p, op, args, header) ==
    LET ctx == context(header)
        r == [Idle EXCEPT !.op = op, !.args = args, !.pc = op,
                          !.currentUser = ctx.currentUser,
                          !.late = (op = "addBook" /\
                                    \E i \in DOMAIN events : events[i].title = args.title),
                          !.badToken = (IsBearer(header) /\
                                        header.token.sig # Hmac(header.token.claims, JWT_SECRET))]
    IN
    /\ req' = [req EXCEPT ![p] = IF ctx.ok THEN r
                                 ELSE Ended(r, "JsonWebTokenError", {})]
    /\ started' = started + 1
    /\ UNCHANGED <<books, authors, users, events, listeners, streams>>

\* A request arrives.
Receive(p) ==
    /\ Free(p)
    /\ \E op \in Ops : \E args \in Inputs(op) : \E header \in Headers(op) :
         Arrive(p, op, args, header)

(***************************************************************************)
(* Mutation.addBook                                                        *)
(***************************************************************************)
\* An Author document with a birth year.
NewAuthor_Born(id, name) == [id |-> id, name |-> name, born |-> Some(0)]

\* The Author document addBook creates.
NewAuthor(id, name) == [id |-> id, name |-> name, born |-> Null]

\* new Book({ ...args, author: author._id }) followed by populate('author').
NewBook(id, args, author) ==
    Populate([id |-> id, title |-> args.title, published |-> args.published,
              genres |-> args.genres, author |-> author.id])

\* A stored Book whose author field holds no Author's identifier.
Depopulate_NoAuthor(b) == [b EXCEPT !.author = 0]

\* What book.save() writes: the author field holds the author's identifier.
Depopulate(b) == [b EXCEPT !.author = b.author.id]

\* As AddBookValidate, but the arguments are checked before the caller.
AddBookValidate_ArgsFirst(p) ==
    LET r == req[p] IN
    /\ r.pc = "addBook"
    /\ IF r.args.title = "" \/ r.args.author = "" \/ r.args.published = Null
       THEN req' = Set(p, Ended(r, "UserInputError", {}))
       ELSE IF Len(r.args.title) < 2
       THEN req' = Set(p, Ended(r, "UserInputError", {}))
       ELSE IF r.currentUser = Null
       THEN req' = Set(p, Ended(r, "AuthenticationError", {}))
       ELSE \E f \in FindOne(BooksByTitle(r.args.title)) :
              req' = Set(p, [r EXCEPT !.found = f, !.pc = "ab_findBook"])
    /\ UNCHANGED <<books, authors, users, events, listeners, streams, started>>

\* As AddBookValidate, but the length of the title is not checked.
AddBookValidate_NoLength(p) ==
    LET r == req[p] IN
    /\ r.pc = "addBook"
    /\ IF r.currentUser = Null
       THEN req' = Set(p, Ended(r, "AuthenticationError", {}))
       ELSE IF r.args.title = "" \/ r.args.author = "" \/ r.args.published = Null
       THEN req' = Set(p, Ended(r, "UserInputError", {}))
       ELSE \E f \in FindOne(BooksByTitle(r.args.title)) :
              req' = Set(p, [r EXCEPT !.found = f, !.pc = "ab_findBook"])
    /\ UNCHANGED <<books, authors, users, events, listeners, streams, started>>

\* The caller check, the argument checks, then Book.findOne({ title }).
AddBookValidate(p) ==
    LET r == req[p] IN
    /\ r.pc = "addBook"
    /\ IF r.currentUser = Null
       THEN req' = Set(p, Ended(r, "AuthenticationError", {}))
       ELSE IF r.args.title = "" \/ r.args.author = "" \/ r.args.published = Null
       THEN req' = Set(p, Ended(r, "UserInputError", {}))
       ELSE IF Len(r.args.title) < 2
       THEN req' = Set(p, Ended(r, "UserInputError", {}))
       ELSE \E f \in FindOne(BooksByTitle(r.args.title)) :
              req' = Set(p, [r EXCEPT !.found = f, !.pc = "ab_findBook"])
    /\ UNCHANGED <<books, authors, users, events, listeners, streams, started>>

\* As AddBookFindAuthor, but a found title returns the found Book instead of
\* throwing.
AddBookFindAuthor_ReturnsFound(p) ==
    LET r == req[p] IN
    /\ r.pc = "ab_findBook"
    /\ IF r.found # Null
       THEN req' = Set(p, Ended(r, "ok", r.found))
       ELSE \E a \in FindOne(AuthorsByName(r.args.author)) :
              req' = Set(p, [r EXCEPT !.found = Null, !.author = a, !.pc = "ab_findAuthor",
                                      !.noAuthor = (AuthorsByName(r.args.author) = {})])
    /\ UNCHANGED <<books, authors, users, events, listeners, streams, started>>

\* 'Title must be unique' when the title was found, else Author.findOne({ name }).
AddBookFindAuthor(p) ==
    LET r == req[p] IN
    /\ r.pc = "ab_findBook"
    /\ IF r.found # Null
       THEN req' = Set(p, Ended(r, "UserInputError", {}))
       ELSE \E a \in FindOne(AuthorsByName(r.args.author)) :
              req' = Set(p, [r EXCEPT !.found = Null, !.author = a, !.pc = "ab_findAuthor",
                                      !.noAuthor = (AuthorsByName(r.args.author) = {})])
    /\ UNCHANGED <<books, authors, users, events, listeners, streams, started>>

\* As AddBookCreateAuthor, but the new Author is saved before its name is
\* checked.
AddBookCreateAuthor_SaveFirst(p) ==
    LET r == req[p] IN
    /\ r.pc = "ab_findAuthor"
    /\ IF r.author = Null
       THEN LET doc == NewAuthor(NewId, r.args.author) IN
            /\ authors' = IF AuthorStoreAccepts(doc) THEN authors \cup {doc} ELSE authors
            /\ req' = Set(p, IF Len(r.args.author) < 4
                             THEN Ended([r EXCEPT !.wrote = AuthorStoreAccepts(doc),
                                                  !.created = authors' \ authors],
                                        "UserInputError", {})
                             ELSE [r EXCEPT !.author = Some(doc), !.pc = "ab_saveAuthor",
                                            !.rejected = ~AuthorStoreAccepts(doc),
                                            !.wrote = AuthorStoreAccepts(doc),
                                            !.created = authors' \ authors])
       ELSE /\ req' = Set(p, [r EXCEPT !.book = Some(NewBook(NewId, r.args, The(r.author))),
                                       !.pc = "ab_populate"])
            /\ UNCHANGED authors
    /\ UNCHANGED <<books, users, events, listeners, streams, started>>

\* No author: the name check and author.save().  An author: the Book is built
\* and populated.
AddBookCreateAuthor(p) ==
    LET r == req[p] IN
    /\ r.pc = "ab_findAuthor"
    /\ IF r.author = Null
       THEN IF Len(r.args.author) < 4
            THEN /\ req' = Set(p, Ended(r, "UserInputError", {}))
                 /\ UNCHANGED authors
            ELSE LET doc == NewAuthor(NewId, r.args.author) IN
                 /\ authors' = IF AuthorStoreAccepts(doc) THEN authors \cup {doc} ELSE authors
                 /\ req' = Set(p, [r EXCEPT !.author = Some(doc), !.pc = "ab_saveAuthor",
                                            !.rejected = ~AuthorStoreAccepts(doc),
                                            !.wrote = AuthorStoreAccepts(doc),
                                            !.created = authors' \ authors])
       ELSE /\ req' = Set(p, [r EXCEPT !.book = Some(NewBook(NewId, r.args, The(r.author))),
                                       !.pc = "ab_populate"])
            /\ UNCHANGED authors
    /\ UNCHANGED <<books, users, events, listeners, streams, started>>

\* As AddBookNewBook, but the rejection of author.save() is not caught.
AddBookNewBook_Uncaught(p) ==
    LET r == req[p] IN
    /\ r.pc = "ab_saveAuthor"
    /\ IF r.rejected
       THEN req' = Set(p, Ended(r, "MongoServerError", {}))
       ELSE req' = Set(p, [r EXCEPT !.book = Some(NewBook(NewId, r.args, The(r.author))),
                                    !.pc = "ab_populate"])
    /\ UNCHANGED <<books, authors, users, events, listeners, streams, started>>

\* After author.save(): its rejection rethrown, else the Book is built and populated.
AddBookNewBook(p) ==
    LET r == req[p] IN
    /\ r.pc = "ab_saveAuthor"
    /\ IF r.rejected
       THEN req' = Set(p, Ended(r, "UserInputError", {}))
       ELSE req' = Set(p, [r EXCEPT !.book = Some(NewBook(NewId, r.args, The(r.author))),
                                    !.pc = "ab_populate"])
    /\ UNCHANGED <<books, authors, users, events, listeners, streams, started>>

\* As AddBookSave, but the save replaces a stored Book of the same title.
AddBookSave_Overwrite(p) ==
    LET r == req[p]
        doc == Depopulate(The(r.book))
    IN
    /\ r.pc = "ab_populate"
    /\ books' = {b \in books : b.title # doc.title} \cup {doc}
    /\ req' = Set(p, [r EXCEPT !.pc = "ab_saveBook", !.rejected = FALSE, !.wrote = TRUE])
    /\ UNCHANGED <<authors, users, events, listeners, streams, started>>

\* book.save()
AddBookSave(p) ==
    LET r == req[p]
        doc == Depopulate(The(r.book))
    IN
    /\ r.pc = "ab_populate"
    /\ books' = IF BookStoreAccepts(doc) THEN books \cup {doc} ELSE books
    /\ req' = Set(p, [r EXCEPT !.pc = "ab_saveBook", !.rejected = ~BookStoreAccepts(doc),
                               !.wrote = r.wrote \/ BookStoreAccepts(doc)])
    /\ UNCHANGED <<authors, users, events, listeners, streams, started>>

\* As AddBookPublish, but the event is published before the rejection is
\* looked at.
AddBookPublish_Always(p) ==
    LET r == req[p] IN
    /\ r.pc = "ab_saveBook"
    /\ Publish(The(r.book))
    /\ req' = Set(p, IF r.rejected
                     THEN Ended([r EXCEPT !.wrote = TRUE], "UserInputError", {})
                     ELSE Ended([r EXCEPT !.wrote = TRUE], "ok", r.book))
    /\ UNCHANGED <<books, authors, users, started>>

\* As AddBookPublish, but the event is published twice.
AddBookPublish_Twice(p) ==
    LET r == req[p] IN
    /\ r.pc = "ab_saveBook"
    /\ IF r.rejected
       THEN /\ req' = Set(p, Ended(r, "UserInputError", {}))
            /\ UNCHANGED <<events, listeners, streams>>
       ELSE /\ events' = events \o <<The(r.book), The(r.book)>>
            /\ streams' = [s \in Streams |->
                             IF s \in listeners
                             THEN [streams[s] EXCEPT !.got = @ \o <<The(r.book), The(r.book)>>]
                             ELSE streams[s]]
            /\ UNCHANGED listeners
            /\ req' = Set(p, Ended([r EXCEPT !.wrote = TRUE], "ok", r.book))
    /\ UNCHANGED <<books, authors, users, started>>

\* After book.save(): its rejection rethrown, else the event is published and
\* the Book returned.
AddBookPublish(p) ==
    LET r == req[p] IN
    /\ r.pc = "ab_saveBook"
    /\ IF r.rejected
       THEN /\ req' = Set(p, Ended(r, "UserInputError", {}))
            /\ UNCHANGED <<events, listeners, streams>>
       ELSE /\ Publish(The(r.book))
            /\ req' = Set(p, Ended([r EXCEPT !.wrote = TRUE], "ok", r.book))
    /\ UNCHANGED <<books, authors, users, started>>

(***************************************************************************)
(* Mutation.editAuthor                                                     *)
(***************************************************************************)
\* The caller check, then Author.findOne({ name }).
EditAuthorFind(p) ==
    LET r == req[p] IN
    /\ r.pc = "editAuthor"
    /\ IF r.currentUser = Null
       THEN req' = Set(p, Ended(r, "AuthenticationError", {}))
       ELSE \E a \in FindOne(AuthorsByName(r.args.name)) :
              req' = Set(p, [r EXCEPT !.author = a, !.pc = "ea_findAuthor"])
    /\ UNCHANGED <<books, authors, users, events, listeners, streams, started>>

\* An update whose filter matches every document.
SaveBorn_All(id, born) == {[a EXCEPT !.born = born] : a \in authors}

\* author.save() of a loaded document whose born was set: the stored document
\* with that identifier gets the new born.
SaveBorn(id, born) ==
    {IF a.id = id THEN [a EXCEPT !.born = born] ELSE a : a \in authors}

\* author.born = args.setBornTo, which throws a TypeError on null; then
\* author.save() and the return.
EditAuthorSave(p) ==
    LET r == req[p] IN
    /\ r.pc = "ea_findAuthor"
    /\ IF r.author = Null
       THEN /\ req' = Set(p, Ended(r, "TypeError", {}))
            /\ UNCHANGED authors
       ELSE LET author == [The(r.author) EXCEPT !.born = Some(r.args.setBornTo)] IN
            /\ authors' = SaveBorn(author.id, author.born)
            /\ req' = Set(p, Ended([r EXCEPT !.wrote = TRUE], "ok", Some(author)))
    /\ UNCHANGED <<books, users, events, listeners, streams, started>>

(***************************************************************************)
(* Mutation.createUser and Mutation.login                                  *)
(***************************************************************************)
\* As CreateUser, but the rejection of user.save() is not caught.
CreateUser_Uncaught(p) ==
    LET r == req[p]
        doc == [id |-> NewId, username |-> r.args.username,
                favoriteGenre |-> r.args.favoriteGenre]
    IN
    /\ r.pc = "createUser"
    /\ IF UserStoreAccepts(doc)
       THEN /\ users' = users \cup {doc}
            /\ req' = Set(p, Ended([r EXCEPT !.wrote = TRUE], "ok", Some(doc)))
       ELSE /\ users' = users
            /\ req' = Set(p, Ended(r, "MongoServerError", {}))
    /\ UNCHANGED <<books, authors, events, listeners, streams, started>>

\* new User(...) and user.save(), a rejection rethrown as UserInputError.
CreateUser(p) ==
    LET r == req[p]
        doc == [id |-> NewId, username |-> r.args.username,
                favoriteGenre |-> r.args.favoriteGenre]
    IN
    /\ r.pc = "createUser"
    /\ IF UserStoreAccepts(doc)
       THEN /\ users' = users \cup {doc}
            /\ req' = Set(p, Ended([r EXCEPT !.wrote = TRUE], "ok", Some(doc)))
       ELSE /\ users' = users
            /\ req' = Set(p, Ended(r, "UserInputError", {}))
    /\ UNCHANGED <<books, authors, events, listeners, streams, started>>

\* As Login, but the password is not compared.
Login_AnyPassword(p) ==
    LET r == req[p] IN
    /\ r.pc = "login"
    /\ \E user \in FindOne(UsersByUsername(r.args.username)) :
         req' = Set(p, IF user = Null
                       THEN Ended(r, "UserInputError", {})
                       ELSE Ended(r, "ok",
                                  Some([value |-> Sign(userForToken(The(user)), JWT_SECRET),
                                        favoriteGenre |-> The(user).favoriteGenre])))
    /\ UNCHANGED <<books, authors, users, events, listeners, streams, started>>

\* User.findOne({ username }), the password check, and the signed token.
Login(p) ==
    LET r == req[p] IN
    /\ r.pc = "login"
    /\ \E user \in FindOne(UsersByUsername(r.args.username)) :
         req' = Set(p, IF user = Null \/ r.args.password # PASSWORD
                       THEN Ended(r, "UserInputError", {})
                       ELSE Ended(r, "ok",
                                  Some([value |-> Sign(userForToken(The(user)), JWT_SECRET),
                                        favoriteGenre |-> The(user).favoriteGenre])))
    /\ UNCHANGED <<books, authors, users, events, listeners, streams, started>>

(***************************************************************************)
(* Query.allBooks                                                          *)
(***************************************************************************)
\* With an author filter Author.findOne({ name }); without one Book.find.
AllBooksFindAuthor(p) ==
    LET r == req[p] IN
    /\ r.pc = "allBooks"
    /\ IF Truthy(r.args.author)
       THEN \E a \in FindOne(AuthorsByName(r.args.author)) :
              req' = Set(p, [r EXCEPT !.author = a, !.pc = "bs_findAuthor"])
       ELSE IF Truthy(r.args.genre)
       THEN req' = Set(p, [r EXCEPT !.list = {b \in books : HasGenre(b, r.args.genre)},
                                    !.pc = "bs_find"])
       ELSE req' = Set(p, [r EXCEPT !.list = books, !.pc = "bs_find"])
    /\ UNCHANGED <<books, authors, users, events, listeners, streams, started>>

\* As AllBooksFind, but the genre is left out of the filter.
AllBooksFind_NoGenre(p) ==
    LET r == req[p] IN
    /\ r.pc = "bs_findAuthor"
    /\ IF r.author = Null
       THEN req' = Set(p, Ended(r, "TypeError", {}))
       ELSE LET id == The(r.author).id IN
            req' = Set(p, [r EXCEPT !.list = {b \in books : b.author \in {id}},
                                    !.pc = "bs_find"])
    /\ UNCHANGED <<books, authors, users, events, listeners, streams, started>>

\* author._id, which throws a TypeError on null; then Book.find by the
\* author's identifier and, when given, the genre.
AllBooksFind(p) ==
    LET r == req[p] IN
    /\ r.pc = "bs_findAuthor"
    /\ IF r.author = Null
       THEN req' = Set(p, Ended(r, "TypeError", {}))
       ELSE LET id == The(r.author).id IN
            req' = Set(p, [r EXCEPT
                   !.list = IF Truthy(r.args.genre)
                            THEN {b \in books : HasGenre(b, r.args.genre) /\ b.author \in {id}}
                            ELSE {b \in books : b.author \in {id}},
                   !.pc = "bs_find"])
    /\ UNCHANGED <<books, authors, users, events, listeners, streams, started>>

\* Every found Book populated, and the return.
AllBooksPopulate(p) ==
    LET r == req[p] IN
    /\ r.pc = "bs_find"
    /\ req' = Set(p, Ended(r, "ok", {Populate(b) : b \in r.list}))
    /\ UNCHANGED <<books, authors, users, events, listeners, streams, started>>

(***************************************************************************)
(* Query.allAuthors, in the variant that derives bookCount                 *)
(***************************************************************************)
\* Author.find({})
AllAuthorsFind(p) ==
    LET r == req[p] IN
    /\ r.pc = "allAuthors"
    /\ req' = Set(p, [r EXCEPT !.authors = authors, !.pc = "as_findAuthors"])
    /\ UNCHANGED <<books, authors, users, events, listeners, streams, started>>

\* Book.find({})
AllAuthorsFindBooks(p) ==
    LET r == req[p] IN
    /\ r.pc = "as_findAuthors"
    /\ req' = Set(p, [r EXCEPT !.list = books, !.pc = "as_findBooks"])
    /\ UNCHANGED <<books, authors, users, events, listeners, streams, started>>

\* A count that does not compare the names.
BookCount_All(author, populated) == Cardinality(populated)

\* The count of one author: the populated books whose author's name is the
\* author's.
BookCount(author, populated) ==
    Cardinality({b \in populated : b.author.name = author.name})

\* Every Book populated, every author given its bookCount, and the return.
AllAuthorsCount(p) ==
    LET r == req[p]
        populated == {Populate(b) : b \in r.list}
    IN
    /\ r.pc = "as_findBooks"
    /\ req' = Set(p, Ended(r, "ok",
                {[id |-> a.id, name |-> a.name, born |-> a.born,
                  bookCount |-> BookCount(a, populated)] : a \in r.authors}))
    /\ UNCHANGED <<books, authors, users, events, listeners, streams, started>>

Next ==
    \E p \in Procs :
        \/ Receive(p)
        \/ AddBookValidate(p)
        \/ AddBookFindAuthor(p)
        \/ AddBookCreateAuthor(p)
        \/ AddBookNewBook(p)
        \/ AddBookSave(p)
        \/ AddBookPublish(p)
        \/ EditAuthorFind(p)
        \/ EditAuthorSave(p)
        \/ CreateUser(p)
        \/ Login(p)
        \/ AllBooksFindAuthor(p)
        \/ AllBooksFind(p)
        \/ AllBooksPopulate(p)
        \/ AllAuthorsFind(p)
        \/ AllAuthorsFindBooks(p)
        \/ AllAuthorsCount(p)

Spec == Init /\ [][Next]_vars

(***************************************************************************)
(* The server with subscribers: addBook requests, with every kind of       *)
(* argument addBook rejects, while subscribers connect and disconnect.     *)
(***************************************************************************)
SubscriptionInputs ==
    { [title |-> "Clean Code", author |-> "Robert Martin", published |-> Some(2008),
       genres |-> <<"tech">>],
      [title |-> "Clean Coder", author |-> "Robert Martin", published |-> Some(2011),
       genres |-> <<"tech">>],
      [title |-> "", author |-> "Robert Martin", published |-> Some(2008), genres |-> <<>>],
      [title |-> "Clean Code", author |-> "", published |-> Some(2008), genres |-> <<>>],
      [title |-> "Clean Code", author |-> "Robert Martin", published |-> Null, genres |-> <<>>],
      [title |-> "C", author |-> "Robert Martin", published |-> Some(2008), genres |-> <<>>],
      [title |-> "Clean Coder", author |-> "Bob", published |-> Some(2011), genres |-> <<>>] }

SubscriptionHeaders ==
    {NoHeader} \cup {[scheme |-> "bearer ", token |-> Sign(userForToken(u), JWT_SECRET)] : u \in users}

\* An addBook request arrives.
ReceiveAddBook(p) ==
    /\ Free(p)
    /\ \E args \in SubscriptionInputs : \E header \in SubscriptionHeaders :
         Arrive(p, "addBook", args, header)

SubscriptionNext ==
    \/ \E p \in Procs :
         \/ ReceiveAddBook(p)
         \/ AddBookValidate(p)
         \/ AddBookFindAuthor(p)
         \/ AddBookCreateAuthor(p)
         \/ AddBookNewBook(p)
         \/ AddBookSave(p)
         \/ AddBookPublish(p)
    \/ \E s \in Streams :
         \/ Subscribe(s)
         \/ Unsubscribe(s)

SubscriptionSpec == Init /\ [][SubscriptionNext]_vars

(***************************************************************************)
(* The whole server: every query and mutation, the two counts included,    *)
(* with subscribers, on a small set of arguments.                          *)
(***************************************************************************)
\* Query.bookCount and Query.authorCount: countDocuments() of the collection.
Count(p) ==
    LET r == req[p] IN
    /\ r.pc \in {"bookCount", "authorCount"}
    /\ req' = Set(p, Ended(r, "ok",
                           Some([count |-> IF r.pc = "bookCount" THEN Cardinality(books)
                                                                 ELSE Cardinality(authors)])))
    /\ UNCHANGED <<books, authors, users, events, listeners, streams, started>>

ServerOps == Ops \cup {"bookCount", "authorCount"}

ServerInputs(op) ==
    CASE op = "addBook" ->
           {a \in AddBookInputs : a.title = "Dune"}
      [] op = "editAuthor" -> {a \in EditAuthorInputs : a.name = "Herbert"}
      [] op = "createUser" -> CreateUserInputs
      [] op = "login" -> {a \in LoginInputs : a.username = "ann" /\ a.password = PASSWORD}
      [] op = "allBooks" -> {a \in AllBooksInputs : a.author \in {"", "Herbert"} /\ a.genre = ""}
      [] OTHER -> {<<>>}

\* The mutations that need a caller carry a stored User's token.
ServerHeaders(op) ==
    IF op \in {"addBook", "editAuthor"}
    THEN {[scheme |-> "bearer ", token |-> Sign(userForToken(u), JWT_SECRET)] : u \in users}
    ELSE {NoHeader}

\* The one subscriber of this specification.
ServerStreams == {"s1"}

\* A request of any operation arrives.
ReceiveAny(p) ==
    /\ Free(p)
    /\ \E op \in ServerOps : \E args \in ServerInputs(op) : \E header \in ServerHeaders(op) :
         Arrive(p, op, args, header)

ServerNext ==
    \/ \E p \in Procs :
         \/ ReceiveAny(p)
         \/ AddBookValidate(p)
         \/ AddBookFindAuthor(p)
         \/ AddBookCreateAuthor(p)
         \/ AddBookNewBook(p)
         \/ AddBookSave(p)
         \/ AddBookPublish(p)
         \/ EditAuthorFind(p)
         \/ EditAuthorSave(p)
         \/ CreateUser(p)
         \/ Login(p)
         \/ AllBooksFindAuthor(p)
         \/ AllBooksFind(p)
         \/ AllBooksPopulate(p)
         \/ AllAuthorsFind(p)
         \/ AllAuthorsFindBooks(p)
         \/ AllAuthorsCount(p)
         \/ Count(p)
    \/ \E s \in ServerStreams :
         \/ Subscribe(s)
         \/ Unsubscribe(s)

ServerSpec == Init /\ [][ServerNext]_vars

(***************************************************************************)
(* Properties                                                              *)
(***************************************************************************)
\* The name of the stored author a stored Book refers to.
AuthorNameOf(b) == The({a \in authors : a.id = b.author}).name

\* The handlers running op that have ended.
Done(op) == {p \in Procs : req[p].op = op /\ req[p].pc = "done"}

\* C1: no two stored Books have the same title, whatever the interleaving of
\* the addBook calls, also when two calls for one title both pass the
\* findOne check before either saves.
C1_TitlesUnique ==
    \A b1 \in books : \A b2 \in books : b1.title = b2.title => b1 = b2

\* Two calls for one title went past the findOne check; one Book is stored
\* and the other call's save was rejected.
C1_Witness ==
    \E p \in Procs : \E q \in Procs \ {p} :
        /\ req[p].pc = "ab_saveBook" /\ req[p].rejected
        /\ req[q].op = "addBook" /\ req[q].args.title = req[p].args.title
        /\ req[q].pc = "done" /\ req[q].result.kind = "ok"
        /\ Cardinality(BooksByTitle(req[p].args.title)) = 1

\* C2: an addBook by an authenticated caller for a title whose addBook has
\* already completed successfully never gets past the title check, so it
\* stores nothing, and it ends in an error.
C2_LaterAddBookFails ==
    \A p \in Procs :
        (req[p].op = "addBook" /\ req[p].late /\ req[p].currentUser # Null) =>
            /\ req[p].pc \in {"addBook", "ab_findBook", "done"}
            /\ req[p].pc = "ab_findBook" => req[p].found # Null
            /\ req[p].pc = "done" => req[p].result.kind = "UserInputError"

\* A later addBook for a stored title has ended, in an error.
C2_Witness ==
    \E p \in Done("addBook") :
        /\ req[p].late /\ req[p].currentUser # Null
        /\ req[p].result.kind = "UserInputError"
        /\ Cardinality(BooksByTitle(req[p].args.title)) = 1

\* C3: every published event carries a stored Book, no Book is published
\* twice, and the stored Books are those published plus those whose addBook
\* is between its save and its publish: an addBook that ended in an error
\* published nothing, one that succeeded published its Book once.
C3_EventsAreStoredBooks ==
    /\ \A i \in DOMAIN events : Depopulate(events[i]) \in books
    /\ \A i \in DOMAIN events : \A j \in DOMAIN events :
         events[i].id = events[j].id => i = j
    /\ Cardinality(books) =
         Len(events) + Cardinality({p \in Procs : req[p].pc = "ab_saveBook" /\ ~req[p].rejected})
    /\ \A p \in Done("addBook") :
         req[p].result.kind = "ok" => \E i \in DOMAIN events : req[p].result.value = {events[i]}

\* One addBook has published its Book and another has ended in an error.
C3_Witness ==
    /\ Len(events) = 1
    /\ \E p \in Done("addBook") : req[p].result.kind = "ok"
    /\ \E p \in Done("addBook") : req[p].result.kind = "UserInputError"
    /\ Cardinality(books) = 1

\* C4: addBook and editAuthor entered without a caller (no bearer header, or
\* a token of a user that is not stored) end at once in AuthenticationError,
\* before any check of the arguments or read of the store, and change nothing.
C4_NoCallerFailsFirst ==
    [][/\ context(NoHeader) = [ok |-> TRUE, currentUser |-> Null]
       /\ context([scheme |-> "Bearer ", token |-> StaleToken]) = [ok |-> TRUE, currentUser |-> Null]
       /\ \A p \in Procs :
            (/\ req[p].pc \in {"addBook", "editAuthor"}
             /\ req[p].currentUser = Null
             /\ req'[p] # req[p]) =>
                /\ req'[p].pc = "done"
                /\ req'[p].result.kind = "AuthenticationError"
                /\ UNCHANGED <<books, authors, users, events>>]_vars

\* An addBook without a caller and with an empty title has ended in
\* AuthenticationError, and so has an editAuthor without a caller.
C4_Witness ==
    \E p \in Done("addBook") : \E q \in Done("editAuthor") :
        /\ req[p].currentUser = Null /\ req[p].args.title = ""
        /\ req[p].result.kind = "AuthenticationError"
        /\ req[q].currentUser = Null
        /\ req[q].result.kind = "AuthenticationError"

\* C5: an editAuthor by an authenticated caller for a name no stored Author
\* has returns null, not an error.
C5_MissingAuthorReturnsNull ==
    \A p \in Done("editAuthor") :
        (req[p].currentUser # Null /\ AuthorsByName(req[p].args.name) = {}) =>
            req[p].result = [kind |-> "ok", value |-> Null]

\* C6: the step of editAuthor that saves, for a name a stored Author has,
\* replaces one stored Author of that name by the same Author with born set
\* to setBornTo and changes nothing else: its name and identifier and every
\* other Author are as they were, and Books, Users and events are unchanged.
C6_EditAuthorSetsBornOnly ==
    [][\A p \in Procs :
        (/\ req[p].pc = "ea_findAuthor"
         /\ req[p].author # Null
         /\ req'[p] # req[p]) =>
            /\ req'[p].pc = "done" /\ req'[p].result.kind = "ok"
            /\ \E a \in authors :
                 /\ a.name = req[p].args.name
                 /\ authors' = (authors \ {a}) \cup
                      {[id |-> a.id, name |-> a.name, born |-> Some(req[p].args.setBornTo)]}
                 /\ req'[p].result.value \subseteq authors'
            /\ UNCHANGED <<books, users, events>>]_vars

\* An editAuthor has set the born of one of two stored Authors; the other
\* has none.
C6_Witness ==
    \E p \in Done("editAuthor") : \E a \in authors : \E b \in authors :
        /\ req[p].result.kind = "ok"
        /\ a.name = req[p].args.name /\ a.born = Some(req[p].args.setBornTo)
        /\ b.name # a.name /\ b.born = Null

\* C7: an allBooks with both filters reads, at its Book.find, exactly the
\* stored Books whose author's name is the author filter and whose genres
\* contain the genre filter, and returns those Books, each with its author.
C7_AllBooksBothFilters ==
    [][\A p \in Procs :
        (/\ req[p].op = "allBooks"
         /\ Truthy(req[p].args.author) /\ Truthy(req[p].args.genre)
         /\ req'[p] # req[p]) =>
            /\ (req[p].pc = "bs_findAuthor" /\ req'[p].pc = "bs_find") =>
                 req'[p].list = {b \in books : /\ AuthorNameOf(b) = req[p].args.author
                                               /\ HasGenre(b, req[p].args.genre)}
            /\ req[p].pc = "bs_find" =>
                 /\ req'[p].pc = "done" /\ req'[p].result.kind = "ok"
                 /\ {Depopulate(b) : b \in req'[p].result.value} = req[p].list
                 /\ \A b \in req'[p].result.value :
                      /\ b.author.name = req[p].args.author
                      /\ HasGenre(b, req[p].args.genre)]_vars

\* An allBooks with both filters has returned one of two stored Books of the
\* author: the other is not of the genre.
C7_Witness ==
    \E p \in Done("allBooks") :
        /\ Truthy(req[p].args.author) /\ Truthy(req[p].args.genre)
        /\ req[p].result.kind = "ok"
        /\ Cardinality(req[p].result.value) = 1
        /\ \E b \in books : /\ AuthorNameOf(b) = req[p].args.author
                            /\ ~HasGenre(b, req[p].args.genre)

\* C8: an allBooks with an author filter that no stored Author's name
\* matches returns the empty sequence, not an error.
C8_UnknownAuthorReturnsEmpty ==
    \A p \in Done("allBooks") :
        (Truthy(req[p].args.author) /\ AuthorsByName(req[p].args.author) = {}) =>
            req[p].result = [kind |-> "ok", value |-> {}]

C10_TokenResolvesToUser ==
    \A p \in Done("login") :
        req[p].result.kind = "ok" =>
            LET token == The(req[p].result.value).value
                ctx == context([scheme |-> "Bearer ", token |-> token])
            IN /\ ctx.ok
               /\ ctx.currentUser # Null
               /\ \A u \in users :
                    u.username = req[p].args.username => ctx.currentUser = Some(u)

\* A user created by createUser has logged in and got a token, while the
\* other handler has since run a createUser.
C10_Witness ==
    \E p \in Done("login") : \E q \in Done("createUser") :
        /\ req[p].result.kind = "ok"
        /\ req[p].args.username = "bob"
        /\ Cardinality(users) = 2

\* The stored state a resolver can change.
stores == <<books, authors, users, events, listeners, streams>>

\* C11: a login step whose username no stored User has, or whose password is
\* not the fixed one, ends the login in UserInputError with no token and
\* changes nothing that is stored.
C11_LoginFailure ==
    [][\A p \in Procs :
         (/\ req[p].pc = "login"
          /\ req'[p] # req[p]
          /\ \/ UsersByUsername(req[p].args.username) = {}
             \/ req[p].args.password # PASSWORD)
         => /\ req'[p].pc = "done"
            /\ req'[p].result = [kind |-> "UserInputError", value |-> {}]
            /\ UNCHANGED stores]_vars

\* A login of a stored User with another password and a login of a username
\* no User has have both ended in UserInputError.
C11_Witness ==
    \E p \in Done("login") : \E q \in Done("login") :
        /\ req[p].args = [username |-> "ann", password |-> "guess"]
        /\ req[p].result.kind = "UserInputError"
        /\ req[q].args.username = "bob"
        /\ UsersByUsername("bob") = {}
        /\ req[q].result.kind = "UserInputError"

\* C12: a stream that is open has been handed exactly the events published
\* since it was opened, each once and in the order published, and none
\* published before; a stream not yet opened has been handed nothing.
C12_DeliveredToOpenStreams ==
    \A s \in Streams :
        /\ streams[s].conn = "open" =>
              /\ s \in listeners
              /\ streams[s].got = SubSeq(events, streams[s].from + 1, Len(events))
        /\ streams[s].conn = "none" => streams[s].got = <<>>

\* Two events were published; the stream opened before the first has both,
\* the stream opened between them has the second only.
C12_Witness ==
    /\ Len(events) = 2
    /\ streams["s1"].conn = "open" /\ streams["s1"].from = 0 /\ Len(streams["s1"].got) = 2
    /\ streams["s2"].conn = "open" /\ streams["s2"].from = 1 /\ streams["s2"].got = <<events[2]>>

\* The number of events a stream was handed that carry the given title and
\* author name.
Handed(s, title, name) ==
    Cardinality({i \in DOMAIN streams[s].got :
                   /\ streams[s].got[i].title = title
                   /\ streams[s].got[i].author.name = name})

\* The addBook calls of "Clean Code" by "Robert Martin" that have returned
\* their Book.
CleanCodeAdded ==
    {p \in Done("addBook") :
        /\ req[p].result.kind = "ok"
        /\ req[p].args.title = "Clean Code"
        /\ req[p].args.author = "Robert Martin"}

C14_ClosedStreamsUnregistered ==
    /\ \A s \in listeners : streams[s].conn = "open"
    /\ \A s \in Streams :
         streams[s].conn = "closed" =>
             streams[s].got = SubSeq(events, streams[s].from + 1, streams[s].upto)

\* A stream was closed while an addBook that had saved its Book was about to
\* publish; the publish has happened since and the stream holds the one
\* earlier event only.
C14_Witness ==
    /\ streams["s1"].conn = "closed"
    /\ streams["s1"].from = 0
    /\ streams["s1"].upto = 1
    /\ Len(streams["s1"].got) = 1
    /\ Len(events) = 2
    /\ "s1" \notin listeners

\* Handler p is an addBook at one of its validation failures: a missing
\* title, author or published year or a title under 2 characters at the
\* argument checks, a title that Book.findOne found stored, or no Author of
\* the name and a name under 4 characters.
ValidationFailure(p) ==
    LET r == req[p] IN
    /\ r.op = "addBook"
    /\ \/ /\ r.pc = "addBook"
          /\ r.currentUser # Null
          /\ \/ r.args.title = ""
             \/ r.args.author = ""
             \/ r.args.published = Null
             \/ Len(r.args.title) < 2
       \/ r.pc = "ab_findBook" /\ r.found # Null
       \/ r.pc = "ab_findAuthor" /\ r.author = Null /\ Len(r.args.author) < 4

\* C15: the step of an addBook at a validation failure ends the call in
\* UserInputError, changes nothing that is stored and publishes nothing, and
\* the call has stored and published nothing before it.
C15_ValidationBeforeWrites ==
    [][\A p \in Procs :
         (ValidationFailure(p) /\ req'[p] # req[p])
         => /\ req'[p].pc = "done"
            /\ req'[p].result = [kind |-> "UserInputError", value |-> {}]
            /\ ~req[p].wrote /\ ~req'[p].wrote
            /\ UNCHANGED stores]_vars

\* An addBook with a new author name of 3 characters and an addBook with no
\* published year have both ended in UserInputError, after another addBook
\* stored a Book.
C15_Witness ==
    \E p \in Done("addBook") : \E q \in Done("addBook") :
        /\ req[p].args.author = "Bob"
        /\ req[p].currentUser # Null
        /\ req[p].result.kind = "UserInputError"
        /\ req[q].args.published = Null
        /\ req[q].currentUser # Null
        /\ req[q].result.kind = "UserInputError"
        /\ books # {}

\* C16: no two stored Authors have the same name.
C16_AuthorNamesUnique ==
    \A a \in authors : \A b \in authors : a.name = b.name => a = b

\* Two addBook calls with different titles and the same new author name both
\* found no Author of the name; one has saved the Author, the other's save
\* was rejected and it has ended in UserInputError with its title not stored.
C16_Witness ==
    \E p \in Done("addBook") : \E q \in Procs \ {p} :
        /\ req[p].args.title = "Emma" /\ req[p].args.author = "Herbert"
        /\ req[p].currentUser # Null
        /\ req[p].result.kind = "UserInputError"
        /\ BooksByTitle("Emma") = {}
        /\ req[q].op = "addBook"
        /\ req[q].args.title = "Dune" /\ req[q].args.author = "Herbert"
        /\ req[q].wrote
        /\ Cardinality(AuthorsByName("Herbert")) = 1

\* C17: a createUser step whose username a stored User has ends the call in
\* UserInputError and leaves Users as it was, and after every step no two
\* stored Users have the same username.
C17_UsernamesUnique ==
    [][/\ \A u \in users' : \A v \in users' : u.username = v.username => u = v
       /\ \A p \in Procs :
            (/\ req[p].pc = "createUser"
             /\ req'[p] # req[p]
             /\ UsersByUsername(req[p].args.username) # {})
            => /\ req'[p].pc = "done"
               /\ req'[p].result = [kind |-> "UserInputError", value |-> {}]
               /\ users' = users]_vars

\* Two createUser calls of the same new username have ended: one has stored
\* the User, the other has ended in UserInputError.
C17_Witness ==
    \E p \in Done("createUser") : \E q \in Done("createUser") :
        /\ req[p].args.username = "bob" /\ req[q].args.username = "bob"
        /\ req[p].result.kind = "ok"
        /\ req[q].result.kind = "UserInputError"
        /\ Cardinality(UsersByUsername("bob")) = 1

\* C18: a request that carried a bearer token jwt.verify rejects (malformed,
\* or signed with another key) has ended in the verification's error without
\* entering a resolver: it has stored nothing and published nothing.
C18_BadTokenStopsAtContext ==
    \A p \in Procs :
        req[p].badToken =>
            /\ req[p].pc = "done"
            /\ req[p].result = [kind |-> "JsonWebTokenError", value |-> {}]
            /\ ~req[p].wrote

\* A createUser and an addBook that carried such a token have ended, and
\* only the User of the initial state is stored.
C18_Witness ==
    \E p \in Done("createUser") : \E q \in Done("addBook") :
        /\ req[p].badToken /\ req[q].badToken
        /\ Cardinality(users) = 1
        /\ books = {} /\ authors = {} /\ events = <<>>

\* Handler p is at a write the store has rejected or is about to reject:
\* addBook after a rejected author.save() or book.save(), createUser with a
\* username a stored User has.
StoreRejects(p) ==
    LET r == req[p] IN
    \/ r.pc \in {"ab_saveAuthor", "ab_saveBook"} /\ r.rejected
    \/ r.pc = "createUser" /\ UsersByUsername(r.args.username) # {}

C20_AuthorCreatedWhenMissing ==
    \A p \in Done("addBook") :
        req[p].result.kind = "ok" =>
            LET book == The(req[p].result.value) IN
            /\ Cardinality(req[p].created) = IF req[p].noAuthor THEN 1 ELSE 0
            /\ \A a \in req[p].created :
                 /\ a.name = req[p].args.author
                 /\ a.born = Null
                 /\ book.author.id = a.id
            /\ Depopulate(book) \in books
            /\ \E a \in authors : a.id = book.author.id /\ a.name = req[p].args.author

\* One addBook has created the Author "Herbert" for its Book; another, of a
\* different title, found that Author and created none.
C20_Witness ==
    \E p \in Done("addBook") : \E q \in Done("addBook") :
        /\ req[p].result.kind = "ok" /\ req[q].result.kind = "ok"
        /\ req[p].args.author = "Herbert" /\ req[q].args.author = "Herbert"
        /\ req[p].noAuthor /\ req[p].created # {}
        /\ ~req[q].noAuthor /\ req[q].created = {}
        /\ Cardinality(books) = 2
        /\ Cardinality(authors) = 1

\* C21: an addBook that has ended in an error has added no Author to the
\* collection.
C21_ErrorLeavesAuthors ==
    \A p \in Done("addBook") :
        req[p].result.kind # "ok" => req[p].created = {}

\* C22: every stored Book references exactly one stored Author, and the
\* author of every Book an allBooks returned or a BOOK_ADDED event carries is
\* the record of a stored Author.
C22_BooksReferenceStoredAuthor ==
    /\ \A b \in books : Cardinality({a \in authors : a.id = b.author}) = 1
    /\ \A i \in DOMAIN events :
         \E a \in authors : a.id = events[i].author.id /\ a.name = events[i].author.name
    /\ \A p \in Done("allBooks") :
         req[p].result.kind = "ok" =>
             \A b \in req[p].result.value :
                 \E a \in authors : a.id = b.author.id /\ a.name = b.author.name

\* Two Books of two Authors are stored, both were published, and an
\* allBooks has returned both.
C22_Witness ==
    /\ Cardinality(books) = 2
    /\ Cardinality(authors) = 2
    /\ Len(events) = 2
    /\ \E p \in Done("allBooks") :
         req[p].result.kind = "ok" /\ Cardinality(req[p].result.value) = 2

\* The catalog's collections.
catalog == <<books, authors, users>>

C24_StoredLengths ==
    /\ \A b \in books : Len(b.title) >= 2
    /\ \A a \in authors : Len(a.name) >= 4

\* An addBook of a 1-character title and an addBook of a new 3-character
\* author name have ended in UserInputError, with a Book and its Author
\* stored by a third.
C24_Witness ==
    \E p \in Done("addBook") : \E q \in Done("addBook") :
        /\ Len(req[p].args.title) = 1
        /\ req[p].currentUser # Null
        /\ req[p].result.kind = "UserInputError"
        /\ Len(req[q].args.author) = 3
        /\ req[q].currentUser # Null
        /\ req[q].result.kind = "UserInputError"
        /\ books # {} /\ authors # {}

====
